---- MODULE Spec2Model ----
(***************************************************************************)
(* A model of ssb-db: an append-only offset log of raw message payloads    *)
(* (the source of truth) and a SQLite index (authors, keys, messages) that *)
(* update_indexes_from_offset_file drains the log into, plus the queries   *)
(* that resolve index rows back to log frames.                             *)
(***************************************************************************)
EXTENDS Integers, Sequences, FiniteSets, TLC

(***************************************************************************)
(* Bounds of the model.                                                    *)
(***************************************************************************)
\* Frames the log may hold.
MaxLog == 3
\* Payloads one append_batch call may carry.
MaxBatch == 2
\* Entries per transaction.  The code uses chunks(10000)
\* (sqlite_ssb_db/mod.rs:73); the model scales the chunk down so that logs of
\* MaxLog frames span several chunks.
ChunkSize == 2
\* Largest non-negative limit passed to get_entries_newer_than_sequence.
MaxLimit == 1
\* Frames of the logs the value projection is applied to.
MaxValueLog == 1
\* Frames of the log an earlier run of the process left behind.
MaxReopenLog == 1
\* Frames of the log a pipeline run is interrupted on.
MaxCrashLog == 3
\* Frames of the log the queries with failing I/O are run on.
MaxFaultLog == 2
\* Frames of the log of a store whose index file has an older schema.
MaxSetupLog == 2
\* Frames of the logs whose envelopes declare any u32 sequence.
MaxWideLog == 2
\* Frames of the log of the store append_batch is called on with a feed id.
MaxFeedLog == 2

(***************************************************************************)
(* Payloads.  A payload either parses as an SSB envelope                   *)
(* {key, value: {author, sequence}} or does not parse (all-zero bytes of a *)
(* deleted record, or bytes that are not JSON).                            *)
(***************************************************************************)
Keys == {"%k1", "%k2"}
Authors == {"@a1", "@a2"}
\* A u32 as its top bit and its low 31 bits: the value is hi * 2^31 + lo.
U32(hi, lo) == [hi |-> hi, lo |-> lo]
Sequences == {U32(0, 1), U32(0, 2)}

\* The members of the value object of an envelope, and the orders the bytes
\* of a payload may list them in.  `order` is the order of the members in the
\* payload as it was appended.
ValueFields == {"previous", "author", "sequence"}
FieldOrders ==
    {s \in [1..3 -> ValueFields] : \A i, j \in 1..3 : s[i] = s[j] => i = j}
\* The order a feed's own encoder writes the members in.
SigningOrder == << "previous", "author", "sequence" >>

Envelopes ==
    [kind : {"env"}, key : Keys, author : Authors, sequence : Sequences,
     order : {SigningOrder}]

\* Envelopes whose value object lists its members in any order.
AnyOrderEnvelopes ==
    [kind : {"env"}, key : Keys, author : Authors, sequence : Sequences,
     order : FieldOrders]

ZeroPayload ==
    [kind |-> "zero", key |-> "", author |-> "", sequence |-> U32(0, 0),
     order |-> << >>]
BadPayload ==
    [kind |-> "bad", key |-> "", author |-> "", sequence |-> U32(0, 0),
     order |-> << >>]
Tombstones == {ZeroPayload, BadPayload}

Payloads == Envelopes \cup Tombstones

\* Option<T> as a sequence of at most one element.
None == << >>
Some(x) == << x >>

\* `sequence as i32` of a u32: values of 2^31 and more wrap to negatives.
AsI32(u) == IF u.hi = 0 THEN u.lo ELSE u.lo - 2147483647 - 1

\* serde_json::from_slice::<SsbMessage>(item): Ok for an envelope, Err for
\* anything else.
FromSliceOk(item) == item.kind = "env"

\* Abstract byte length of a payload (an envelope is longer than a tombstone).
PayloadLen(item) == IF item.kind = "env" THEN 8 ELSE 3

\* An OffsetLog<u32> frame: length, payload, length, next offset.
FrameSize(item) == 4 + PayloadLen(item) + 4 + 4

(***************************************************************************)
(* The offset log: a sequence of payloads; a frame's offset is the byte    *)
(* position of its first field, the first frame being at offset 0.         *)
(***************************************************************************)
RECURSIVE OffsetAt(_, _)
OffsetAt(lg, i) ==
    IF i = 1 THEN 0 ELSE OffsetAt(lg, i - 1) + FrameSize(lg[i - 1])

LogEntries(lg) ==
    [i \in 1..Len(lg) |-> [offset |-> OffsetAt(lg, i), data |-> lg[i]]]

\* offset_log.iter_at_offset(start): every frame at or after start, forward.
IterAtOffset(lg, start) ==
    SelectSeq(LogEntries(lg), LAMBDA e : e.offset >= start)

\* Iterator::skip(n)
Skip(s, n) == IF n >= Len(s) THEN << >> ELSE SubSeq(s, n + 1, Len(s))

\* offset_log.get(offset): the payload of the frame at offset; an error when
\* no frame starts there or when the read fails (offset \in unreadable).
LogGet(lg, offset, unreadable) ==
    LET hits == SelectSeq(LogEntries(lg), LAMBDA e : e.offset = offset)
    IN  IF hits = << >> \/ offset \in unreadable
        THEN [ok |-> FALSE, data |-> ZeroPayload]
        ELSE [ok |-> TRUE, data |-> hits[1].data]

\* offset_log.append_batch(messages): the frames are appended contiguously.
LogAppendBatch(lg, batch) == lg \o batch

(***************************************************************************)
(* The relational index.  A database is a record of three tables, each a   *)
(* sequence of rows in insertion (rowid) order.                            *)
(*   authors  : [id, author]                                               *)
(*   keys     : [id, key]                                                  *)
(*   messages : [flume_seq, seq, key_id, author_id]                        *)
(***************************************************************************)
EmptyDb == [authors |-> << >>, keys |-> << >>, messages |-> << >>]

RECURSIVE SeqMax(_)
\* The largest element of a non-empty sequence of integers.
SeqMax(s) ==
    IF Len(s) = 1 THEN s[1]
    ELSE LET m == SeqMax(Tail(s)) IN IF s[1] > m THEN s[1] ELSE m

\* The id SQLite gives a row inserted without one: the largest id plus one.
NextRowId(rows) ==
    IF rows = << >> THEN 1
    ELSE SeqMax([i \in 1..Len(rows) |-> rows[i].id]) + 1

\* A mutant of FindOrCreateAuthor: the largest id of the table is returned
\* also when the author already has a row.
FindOrCreateAuthorLatestId(rows, author) ==
    LET hits == SelectSeq(rows, LAMBDA r : r.author = author)
        after == IF hits # << >> THEN rows
                 ELSE Append(rows, [id |-> NextRowId(rows), author |-> author])
    IN  [rows |-> after,
         id |-> SeqMax([i \in 1..Len(after) |-> after[i].id])]

\* A mutant of FindOrCreateAuthor: a row is inserted whether or not the
\* author has one.
FindOrCreateAuthorAlwaysInsert(rows, author) ==
    LET inserted == Append(rows, [id |-> NextRowId(rows), author |-> author])
    IN  [rows |-> inserted,
         id |-> SeqMax([i \in 1..Len(inserted) |-> inserted[i].id])]

\* find_or_create_author: the id of the first row holding the author string;
\* when there is none, insert a row and return the largest id of the table.
FindOrCreateAuthor(rows, author) ==
    LET hits == SelectSeq(rows, LAMBDA r : r.author = author)
    IN  IF hits # << >>
        THEN [rows |-> rows, id |-> hits[1].id]
        ELSE LET inserted ==
                     Append(rows, [id |-> NextRowId(rows), author |-> author])
             IN  [rows |-> inserted,
                  id |-> SeqMax([i \in 1..Len(inserted) |-> inserted[i].id])]

\* find_or_create_key: as find_or_create_author, on the keys table.
FindOrCreateKey(rows, key) ==
    LET hits == SelectSeq(rows, LAMBDA r : r.key = key)
    IN  IF hits # << >>
        THEN [rows |-> rows, id |-> hits[1].id]
        ELSE LET inserted ==
                     Append(rows, [id |-> NextRowId(rows), key |-> key])
             IN  [rows |-> inserted,
                  id |-> SeqMax([i \in 1..Len(inserted) |-> inserted[i].id])]

\* insert_message: one more row in messages.
InsertMessage(rows, seq, flume_seq, message_key_id, author_id) ==
    Append(rows, [flume_seq |-> flume_seq, seq |-> seq,
                  key_id |-> message_key_id, author_id |-> author_id])

\* get_latest: SELECT max(flume_seq) FROM messages, None on an empty table.
\* The value travels as f64 and is cast to u64 by the caller; both casts are
\* exact for the offsets of an OffsetLog<u32>.
GetLatest(rows) ==
    IF rows = << >> THEN None
    ELSE Some(SeqMax([i \in 1..Len(rows) |-> rows[i].flume_seq]))

\* A mutant of AppendItem: an unparseable frame gets a row of its own.
AppendItemIndexingTombstones(db, seq, item) ==
    LET k == FindOrCreateKey(db.keys, item.key)
        a == FindOrCreateAuthor(db.authors, item.author)
    IN  [authors |-> a.rows, keys |-> k.rows,
         messages |->
             InsertMessage(db.messages, AsI32(item.sequence), seq, k.id, a.id)]

\* append_item: skip a payload that does not parse; otherwise find or create
\* the key and author rows and insert the messages row.
AppendItem(db, seq, item) ==
    IF ~FromSliceOk(item) THEN db
    ELSE LET k == FindOrCreateKey(db.keys, item.key)
             a == FindOrCreateAuthor(db.authors, item.author)
         IN  [authors |-> a.rows, keys |-> k.rows,
              messages |->
                  InsertMessage(db.messages, AsI32(item.sequence), seq,
                                k.id, a.id)]

(***************************************************************************)
(* The indexing pipeline, update_indexes_from_offset_file.                 *)
(***************************************************************************)
\* A mutant of NumToSkip: the frame at the high-water mark is never elided.
NumToSkipNever(max_seq) == 0

\* num_to_skip: 0 on an empty index, 1 to elide the frame at the high-water
\* mark otherwise.
NumToSkip(max_seq) == IF max_seq = None THEN 0 ELSE 1

\* A mutant of StartingOffset: an empty index starts behind the first frame.
StartingOffsetPastFirst(max_seq) == IF max_seq = None THEN 1 ELSE max_seq[1]

\* starting_offset = max_seq.unwrap_or(0)
StartingOffset(max_seq) == IF max_seq = None THEN 0 ELSE max_seq[1]

\* The entries a run has to index: iter_at_offset(start).skip(num_to_skip).
Pending(db, lg) ==
    LET max_seq == GetLatest(db.messages)
    IN  Skip(IterAtOffset(lg, StartingOffset(max_seq)), NumToSkip(max_seq))

\* itertools chunks(n): the number of chunks of a stream, and its k-th chunk.
NumChunks(s) == (Len(s) + ChunkSize - 1) \div ChunkSize
Chunk(s, k) ==
    SubSeq(s, (k - 1) * ChunkSize + 1,
           IF k * ChunkSize < Len(s) THEN k * ChunkSize ELSE Len(s))

RECURSIVE AppendItems(_, _)
\* The body of one transaction: append_item on every entry of the chunk.
AppendItems(db, chunk) ==
    IF chunk = << >> THEN db
    ELSE AppendItems(AppendItem(db, chunk[1].offset, chunk[1].data),
                     Tail(chunk))

RECURSIVE RunChunksGoingOn(_, _, _, _)
\* A mutant of RunChunks: the run goes on with the next chunk after the one
\* that failed.
RunChunksGoingOn(db, pending, k, failAt) ==
    IF k > NumChunks(pending)
    THEN [db |-> db, err |-> IF failAt = 0 THEN "" ELSE "SqliteAppendError"]
    ELSE IF k = failAt THEN RunChunksGoingOn(db, pending, k + 1, failAt)
    ELSE RunChunksGoingOn(AppendItems(db, Chunk(pending, k)), pending, k + 1,
                          failAt)

RECURSIVE RunChunksNoRollback(_, _, _, _)
\* A mutant of RunChunks: the rows of the chunk that failed stay.
RunChunksNoRollback(db, pending, k, failAt) ==
    IF k > NumChunks(pending) THEN [db |-> db, err |-> ""]
    ELSE IF k = failAt
         THEN [db |-> AppendItems(db, Chunk(pending, k)),
               err |-> "SqliteAppendError"]
    ELSE RunChunksNoRollback(AppendItems(db, Chunk(pending, k)), pending,
                             k + 1, failAt)

RECURSIVE RunChunksKeepingAuthors(_, _, _, _)
\* A mutant of RunChunks: the authors rows of the chunk that failed stay.
RunChunksKeepingAuthors(db, pending, k, failAt) ==
    IF k > NumChunks(pending) THEN [db |-> db, err |-> ""]
    ELSE IF k = failAt
         THEN [db |-> [db EXCEPT !.authors =
                           AppendItems(db, Chunk(pending, k)).authors],
               err |-> "SqliteAppendError"]
    ELSE RunChunksKeepingAuthors(AppendItems(db, Chunk(pending, k)), pending,
                                 k + 1, failAt)

RECURSIVE RunChunks(_, _, _, _)
\* The chunks from the k-th on, one transaction each, in order.  The
\* transaction of chunk failAt fails (failAt = 0: none does): it is rolled
\* back and the run stops there with SqliteAppendError; the chunks committed
\* before it stay.
RunChunks(db, pending, k, failAt) ==
    IF k > NumChunks(pending) THEN [db |-> db, err |-> ""]
    ELSE IF k = failAt THEN [db |-> db, err |-> "SqliteAppendError"]
    ELSE RunChunks(AppendItems(db, Chunk(pending, k)), pending, k + 1, failAt)

\* update_indexes_from_offset_file on database db and log lg.  latestOk says
\* whether the get_latest query succeeds.
UpdateIndexesFromOffsetFile(db, lg, latestOk, failAt) ==
    IF ~latestOk THEN [db |-> db, err |-> "UnableToGetLatestSequence"]
    ELSE RunChunks(db, Pending(db, lg), 1, failAt)

\* setup_connection on a path that holds no file: the file is created by
\* the connection (mode=rwc) and the migrations give it three empty tables.
SetupConnectionFresh == EmptyDb

\* setup_connection: on a file that holds the tables of the current schema no
\* migration is pending and the tables are kept as they are; without a file
\* the connection starts from empty tables.
SetupConnection(db, fileExists) ==
    IF fileExists THEN db ELSE SetupConnectionFresh

\* setup_connection on a file whose tables db were written under an older
\* schema: some migration is pending.  probeOk says whether
\* any_pending_migrations returns Ok (then Ok(true)) or Err; writable says
\* whether SQLite writes through a connection whose file has been removed.
\*   Err: the migrations are run on the file as it is, which keeps its rows,
\*        and the second any_pending_migrations is no Ok(true).
\*   Ok(true): the file is removed and the migrations are run on the same
\*        connection, which stays on the removed file; no connection is
\*        established on database_path again.  When the write is refused
\*        the unwrap panics.
\* The result: the tables the connection sees, whether a file exists at
\* database_path, whether setup_connection returned.
SetupConnectionOutdated(db, probeOk, writable) ==
    IF ~probeOk THEN [db |-> db, file |-> TRUE, returned |-> TRUE]
    ELSE IF writable THEN [db |-> db, file |-> FALSE, returned |-> TRUE]
    ELSE [db |-> EmptyDb, file |-> FALSE, returned |-> FALSE]

(***************************************************************************)
(* The query primitives of the index.  Each is one SELECT; sqlOk says      *)
(* whether the statement succeeds.  A join lists its rows in the order of  *)
(* the messages table.                                                     *)
(***************************************************************************)
AuthorIds(rows, author) ==
    {rows[i].id : i \in {j \in 1..Len(rows) : rows[j].author = author}}

KeyIds(rows, key) ==
    {rows[i].id : i \in {j \in 1..Len(rows) : rows[j].key = key}}

\* Iterator::take(n) / LIMIT n for n >= 0.
Take(s, n) == IF n >= Len(s) THEN s ELSE SubSeq(s, 1, n)

FlumeSeqsOf(rows) == [i \in 1..Len(rows) |-> rows[i].flume_seq]

\* find_message_flume_seq_by_key: keys JOIN messages ON key_id = keys.id
\* WHERE key = ?, first row; NotFound when there is none.
FindMessageFlumeSeqByKey(db, key, sqlOk) ==
    LET ids == KeyIds(db.keys, key)
        hits == SelectSeq(db.messages,
                          LAMBDA m : m.key_id \in ids)
    IN  IF ~sqlOk \/ hits = << >>
        THEN [ok |-> FALSE, val |-> None]
        ELSE [ok |-> TRUE, val |-> Some(hits[1].flume_seq)]

\* find_message_flume_seq_by_author_and_sequence: authors JOIN messages
\* WHERE seq = ? AND author = ?, first row, .optional(): None when there is
\* no row.
FindMessageFlumeSeqByAuthorAndSequence(db, author, sequence, sqlOk) ==
    LET ids == AuthorIds(db.authors, author)
        hits == SelectSeq(db.messages,
                          LAMBDA m : /\ m.author_id \in ids
                                     /\ m.seq = sequence)
    IN  IF ~sqlOk THEN [ok |-> FALSE, val |-> None]
        ELSE IF hits = << >> THEN [ok |-> TRUE, val |-> None]
        ELSE [ok |-> TRUE, val |-> Some(hits[1].flume_seq)]

\* A mutant of FindFeedLatestSeq: the seq of the row inserted last.
FindFeedLatestSeqLastRow(db, author, sqlOk) ==
    LET ids == AuthorIds(db.authors, author)
        hits == SelectSeq(db.messages,
                          LAMBDA m : m.author_id \in ids)
    IN  IF ~sqlOk THEN [ok |-> FALSE, val |-> None]
        ELSE IF hits = << >> THEN [ok |-> TRUE, val |-> None]
        ELSE [ok |-> TRUE, val |-> Some(hits[Len(hits)].seq)]

\* find_feed_latest_seq: SELECT max(seq) over the author's messages; the
\* aggregate is NULL (None) when there is no row.
FindFeedLatestSeq(db, author, sqlOk) ==
    LET ids == AuthorIds(db.authors, author)
        hits == SelectSeq(db.messages,
                          LAMBDA m : m.author_id \in ids)
    IN  IF ~sqlOk THEN [ok |-> FALSE, val |-> None]
        ELSE IF hits = << >> THEN [ok |-> TRUE, val |-> None]
        ELSE [ok |-> TRUE,
              val |-> Some(SeqMax([i \in 1..Len(hits) |-> hits[i].seq]))]

\* A mutant of FindFeedFlumeSeqsNewerThan: seq >= ? instead of seq > ?.
FindFeedFlumeSeqsNotOlderThan(db, author, sequence, limit, sqlOk) ==
    LET ids == AuthorIds(db.authors, author)
        hits == SelectSeq(db.messages,
                          LAMBDA m : /\ m.author_id \in ids
                                     /\ m.seq >= sequence)
    IN  IF ~sqlOk THEN [ok |-> FALSE, val |-> << >>]
        ELSE IF limit = None \/ limit[1] < 0
             THEN [ok |-> TRUE, val |-> FlumeSeqsOf(hits)]
             ELSE [ok |-> TRUE, val |-> FlumeSeqsOf(Take(hits, limit[1]))]

\* A mutant of FindFeedFlumeSeqsNewerThan: the newest row comes first.
FindFeedFlumeSeqsNewestFirst(db, author, sequence, limit, sqlOk) ==
    LET ids == AuthorIds(db.authors, author)
        hits == SelectSeq(db.messages,
                          LAMBDA m : /\ m.author_id \in ids
                                     /\ m.seq > sequence)
        desc == [i \in 1..Len(hits) |-> hits[Len(hits) + 1 - i]]
    IN  IF ~sqlOk THEN [ok |-> FALSE, val |-> << >>]
        ELSE IF limit = None \/ limit[1] < 0
             THEN [ok |-> TRUE, val |-> FlumeSeqsOf(desc)]
             ELSE [ok |-> TRUE, val |-> FlumeSeqsOf(Take(desc, limit[1]))]

\* find_feed_flume_seqs_newer_than: authors JOIN messages WHERE seq > ? AND
\* author = ? LIMIT ?.  The limit is limit.unwrap_or(i64::MAX); SQLite reads
\* a negative LIMIT as no limit.
FindFeedFlumeSeqsNewerThan(db, author, sequence, limit, sqlOk) ==
    LET ids == AuthorIds(db.authors, author)
        hits == SelectSeq(db.messages,
                          LAMBDA m : /\ m.author_id \in ids
                                     /\ m.seq > sequence)
    IN  IF ~sqlOk THEN [ok |-> FALSE, val |-> << >>]
        ELSE IF limit = None \/ limit[1] < 0
             THEN [ok |-> TRUE, val |-> FlumeSeqsOf(hits)]
             ELSE [ok |-> TRUE, val |-> FlumeSeqsOf(Take(hits, limit[1]))]


(***************************************************************************)
(* The queries of the store, as functions of the index, the log and the    *)
(* outcome of the I/O they do.  A result is [err, val]: err is "" on       *)
(* success, val is the sequence (or Option) returned.                      *)
(***************************************************************************)
Ok(val) == [err |-> "", val |-> val]
Err(e) == [err |-> e, val |-> << >>]

\* A mutant of GetEntryByKey: an unknown key is looked up at offset 0.
GetEntryByKeyReadingAnyway(db, lg, message_key, sqlOk, unreadable) ==
    LET flume_seq == FindMessageFlumeSeqByKey(db, message_key, sqlOk)
        got == LogGet(lg, IF flume_seq.ok THEN flume_seq.val[1] ELSE 0,
                      unreadable)
    IN  IF got.ok THEN Ok(<< got.data >>) ELSE Err("OffsetGetError")

\* get_entry_by_key
GetEntryByKey(db, lg, message_key, sqlOk, unreadable) ==
    LET flume_seq == FindMessageFlumeSeqByKey(db, message_key, sqlOk)
    IN  IF ~flume_seq.ok THEN Err("MessageNotFound")
        ELSE LET got == LogGet(lg, flume_seq.val[1], unreadable)
             IN  IF got.ok THEN Ok(<< got.data >>) ELSE Err("OffsetGetError")

\* A mutant of GetEntryBySeq: no row is reported as MessageNotFound.
GetEntryBySeqNoneIsError(db, lg, feed_id, sequence, sqlOk, unreadable) ==
    LET flume_seq ==
            FindMessageFlumeSeqByAuthorAndSequence(db, feed_id, sequence, sqlOk)
    IN  IF ~flume_seq.ok \/ flume_seq.val = None THEN Err("MessageNotFound")
        ELSE LET got == LogGet(lg, flume_seq.val[1], unreadable)
             IN  IF got.ok THEN Ok(Some(got.data)) ELSE Err("OffsetGetError")

\* get_entry_by_seq
GetEntryBySeq(db, lg, feed_id, sequence, sqlOk, unreadable) ==
    LET flume_seq ==
            FindMessageFlumeSeqByAuthorAndSequence(db, feed_id, sequence, sqlOk)
    IN  IF ~flume_seq.ok THEN Err("MessageNotFound")
        ELSE IF flume_seq.val = None THEN Ok(None)
        ELSE LET got == LogGet(lg, flume_seq.val[1], unreadable)
             IN  IF got.ok THEN Ok(Some(got.data)) ELSE Err("OffsetGetError")

\* get_feed_latest_sequence
GetFeedLatestSequence(db, feed_id, sqlOk) ==
    LET latest == FindFeedLatestSeq(db, feed_id, sqlOk)
    IN  IF latest.ok THEN Ok(latest.val) ELSE Err("FeedNotFound")

\* ssb_legacy_msg_data::json::from_slice: an envelope parses to an object.
LegacyFromSliceOk(item) == item.kind = "env"

\* What a member of the value object holds.
FieldValue(item, name) ==
    CASE name = "author" -> item.author
      [] name = "sequence" -> item.sequence
      [] OTHER -> "null"

\* ssb_legacy_msg_data::json::from_slice(&msg), then .get("value"): the
\* entries of the value object, in the order the payload lists them.
LegacyValue(item) ==
    [i \in 1..Len(item.order) |->
        [name |-> item.order[i], val |-> FieldValue(item, item.order[i])]]

\* ssb_legacy_msg_data::json::to_vec(&val, false): the bytes of the object,
\* its entries emitted one after the other in the not-compact layout.
LegacyToVec(entries) == [layout |-> "indented", entries |-> entries]

\* A mutant of ValueOf: the value goes through a map that keeps its entries
\* sorted by name.
ValueOfSortedByName(item) ==
    LET sorted == << "author", "previous", "sequence" >>
    IN  LegacyToVec([i \in 1..Len(item.order) |->
                        [name |-> sorted[i],
                         val |-> FieldValue(item, sorted[i])]])

\* The "value" member of a parsed envelope, serialized again.
ValueOf(item) == LegacyToVec(LegacyValue(item))

RECURSIVE ReadAll(_, _, _)
\* seqs.iter().map(|seq| offset_log.get(*seq)): the results of the reads.
ReadAll(lg, seqs, unreadable) ==
    IF seqs = << >> THEN << >>
    ELSE << LogGet(lg, seqs[1], unreadable) >>
             \o ReadAll(lg, Tail(seqs), unreadable)

\* flat_map over the reads: a failed read yields nothing, a good one its data.
FlatReads(reads) ==
    LET good == SelectSeq(reads, LAMBDA r : r.ok)
    IN  [i \in 1..Len(good) |-> good[i].data]

\* (true, false): the key of every payload that was read and parses.
ProjectKeys(lg, seqs, unreadable) ==
    LET msgs == SelectSeq(FlatReads(ReadAll(lg, seqs, unreadable)), FromSliceOk)
    IN  Ok([i \in 1..Len(msgs) |-> msgs[i].key])

\* (false, true): the value of every payload that was read and parses.
ProjectValues(lg, seqs, unreadable) ==
    LET vals == SelectSeq(FlatReads(ReadAll(lg, seqs, unreadable)),
                          LegacyFromSliceOk)
    IN  Ok([i \in 1..Len(vals) |-> ValueOf(vals[i])])

\* (true, true): the payloads as read; collect stops at the first failed read.
ProjectWhole(lg, seqs, unreadable) ==
    LET reads == ReadAll(lg, seqs, unreadable)
    IN  IF \E i \in 1..Len(reads) : ~reads[i].ok THEN Err("OffsetGetError")
        ELSE Ok([i \in 1..Len(reads) |-> reads[i].data])

\* A mutant of GetEntriesNewerThanSequence: (false, false) is served like
\* (true, true).
GetEntriesNewerThanSequenceLax(db, lg, feed_id, sequence, limit, include_keys, include_values, sqlOk, unreadable) ==
    LET seqs == FindFeedFlumeSeqsNewerThan(db, feed_id, sequence, limit, sqlOk)
    IN  IF ~seqs.ok THEN Err("FeedNotFound")
        ELSE IF include_keys /\ ~include_values
             THEN ProjectKeys(lg, seqs.val, unreadable)
        ELSE IF ~include_keys /\ include_values
             THEN ProjectValues(lg, seqs.val, unreadable)
        ELSE ProjectWhole(lg, seqs.val, unreadable)

\* get_entries_newer_than_sequence: resolve the offsets, then project.
GetEntriesNewerThanSequence(db, lg, feed_id, sequence, limit, include_keys, include_values, sqlOk, unreadable) ==
    LET seqs == FindFeedFlumeSeqsNewerThan(db, feed_id, sequence, limit, sqlOk)
    IN  IF ~seqs.ok THEN Err("FeedNotFound")
        ELSE IF ~include_keys /\ ~include_values
             THEN Err("IncludeKeysIncludeValuesBothFalse")
        ELSE IF include_keys /\ ~include_values
             THEN ProjectKeys(lg, seqs.val, unreadable)
        ELSE IF ~include_keys /\ include_values
             THEN ProjectValues(lg, seqs.val, unreadable)
        ELSE ProjectWhole(lg, seqs.val, unreadable)


(***************************************************************************)
(* The store: SqliteSsbDb { connection, offset_log, db_path }.             *)
(***************************************************************************)
VARIABLES
    log,        \* offset_log: the payloads of the frames, in file order
    authors,    \* connection: the authors table
    keys,       \* connection: the keys table
    messages,   \* connection: the messages table
    dbFile,     \* whether a file exists at db_path
    last        \* the last call and what it returned to the caller

vars == << log, authors, keys, messages, dbFile, last >>

Db == [authors |-> authors, keys |-> keys, messages |-> messages]

\* The record of a call: the operation, its arguments, the error it returned
\* ("" on success) and the value it returned.
NoArgs ==
    [key |-> "", feed |-> "", sequence |-> 0, limit |-> None,
     include_keys |-> FALSE, include_values |-> FALSE,
     sqlOk |-> TRUE, unreadable |-> {}, appended |-> 0, before |-> 0,
     schema |-> ""]

\* What the record of a mutating call keeps besides its result: the number
\* of frames the call appended to the log and the number of messages rows
\* the index held when it was called.  The record of new on a file of an
\* older schema says so in its schema field.
MutArgs(appended, before) ==
    [NoArgs EXCEPT !.appended = appended, !.before = before]

Call(op, args, err, val) == [op |-> op, args |-> args, err |-> err, val |-> val]

\* The caller is between calls: it has taken the result of its last call.
Idle == last.op = "idle"

\* SqliteSsbDb::new on fresh paths: an empty log and an empty index.
Init ==
    /\ log = << >>
    /\ authors = << >>
    /\ keys = << >>
    /\ messages = << >>
    /\ dbFile = TRUE
    /\ last = Call("new", NoArgs, "", << >>)

\* The batches a caller may pass: any payloads, parseable or not.
Batches == UNION {[1..n -> Payloads] : n \in 1..MaxBatch}

SetDb(db) ==
    /\ authors' = db.authors
    /\ keys' = db.keys
    /\ messages' = db.messages

\* A mutant of AppendBatch: the error of the log append is not returned
\* before the pipeline is run.
AppendBatchIgnoringLogError ==
    /\ Idle
    /\ \E batch \in Batches, logOk \in BOOLEAN, latestOk \in BOOLEAN :
        /\ Len(log) + Len(batch) <= MaxLog
        /\ log' = IF logOk THEN LogAppendBatch(log, batch) ELSE log
        /\ \E failAt \in 0..NumChunks(Pending(Db, log')) :
             LET r == UpdateIndexesFromOffsetFile(Db, log', latestOk, failAt)
             IN  /\ SetDb(r.db)
                 /\ last' = Call("append_batch",
                                 MutArgs(IF logOk THEN Len(batch) ELSE 0,
                                         Len(messages)),
                                 IF logOk THEN r.err ELSE "OffsetAppendError",
                                 << >>)
        /\ UNCHANGED dbFile

\* append_batch: append to the log, then run the pipeline.  When the log
\* append fails the call returns OffsetAppendError at once.
AppendBatch ==
    /\ Idle
    /\ \E batch \in Batches, logOk \in BOOLEAN, latestOk \in BOOLEAN :
        /\ Len(log) + Len(batch) <= MaxLog
        /\ IF ~logOk
           THEN /\ last' = Call("append_batch", MutArgs(0, Len(messages)),
                                 "OffsetAppendError", << >>)
                /\ UNCHANGED << log, authors, keys, messages, dbFile >>
           ELSE /\ log' = LogAppendBatch(log, batch)
                /\ \E failAt \in 0..NumChunks(Pending(Db, log')) :
                     LET r == UpdateIndexesFromOffsetFile(Db, log', latestOk, failAt)
                     IN  /\ SetDb(r.db)
                         /\ last' = Call("append_batch",
                                         MutArgs(Len(batch), Len(messages)),
                                         r.err, << >>)
                /\ UNCHANGED dbFile

\* update_indexes_from_offset_file called by the user of the store.
UpdateIndexes ==
    /\ Idle
    /\ \E latestOk \in BOOLEAN, failAt \in 0..NumChunks(Pending(Db, log)) :
         LET r == UpdateIndexesFromOffsetFile(Db, log, latestOk, failAt)
         IN  /\ SetDb(r.db)
             /\ last' = Call("update_indexes_from_offset_file",
                             MutArgs(0, Len(messages)), r.err, << >>)
    /\ UNCHANGED << log, dbFile >>

\* A mutant of RebuildIndexes: the connection is set up anew but the
\* pipeline is not run.
RebuildIndexesWithoutPipeline ==
    /\ Idle
    /\ dbFile
    /\ SetDb(SetupConnectionFresh)
    /\ last' = Call("rebuild_indexes", MutArgs(0, Len(messages)), "", << >>)
    /\ UNCHANGED << log, dbFile >>

\* A mutant of RebuildIndexes: the log file is removed with the database
\* file.
RebuildIndexesRemovingLog ==
    /\ Idle
    /\ dbFile
    /\ log' = << >>
    /\ \E latestOk \in BOOLEAN :
         LET r == UpdateIndexesFromOffsetFile(SetupConnectionFresh, log',
                                              latestOk, 0)
         IN  /\ SetDb(r.db)
             /\ last' = Call("rebuild_indexes", MutArgs(0, Len(messages)),
                             r.err, << >>)
    /\ UNCHANGED dbFile

\* rebuild_indexes: remove the database file, set the connection up anew and
\* run the pipeline on the empty index.
RebuildIndexes ==
    /\ Idle
    /\ dbFile
    /\ \E latestOk \in BOOLEAN,
          failAt \in 0..NumChunks(Pending(SetupConnectionFresh, log)) :
         LET r == UpdateIndexesFromOffsetFile(SetupConnectionFresh, log,
                                              latestOk, failAt)
         IN  /\ SetDb(r.db)
             /\ last' = Call("rebuild_indexes", MutArgs(0, Len(messages)),
                             r.err, << >>)
    /\ UNCHANGED << log, dbFile >>

(***************************************************************************)
(* The queries as calls.  A query changes neither the log nor the index.   *)
(***************************************************************************)
\* The arguments callers pass.
AfterSeqs == {0, 1}
QuerySeqs == {1, 2}
Limits == {None} \cup {Some(n) : n \in -1..MaxLimit}

\* The I/O of a query that goes well: the statement succeeds and every frame
\* of the log can be read.
Healthy == [sqlOk : {TRUE}, unreadable : {{}}]

Args(key, feed, sequence, limit, ik, iv, io) ==
    [key |-> key, feed |-> feed, sequence |-> sequence, limit |-> limit,
     include_keys |-> ik, include_values |-> iv,
     sqlOk |-> io.sqlOk, unreadable |-> io.unreadable,
     appended |-> 0, before |-> 0, schema |-> ""]

QueryGetEntryByKey(ios) ==
    /\ Idle
    /\ \E k \in Keys, io \in ios :
         LET r == GetEntryByKey(Db, log, k, io.sqlOk, io.unreadable)
         IN  last' = Call("get_entry_by_key",
                          Args(k, "", 0, None, FALSE, FALSE, io), r.err, r.val)
    /\ UNCHANGED << log, authors, keys, messages, dbFile >>

QueryGetEntryBySeq(ios) ==
    /\ Idle
    /\ \E f \in Authors, n \in QuerySeqs, io \in ios :
         LET r == GetEntryBySeq(Db, log, f, n, io.sqlOk, io.unreadable)
         IN  last' = Call("get_entry_by_seq",
                          Args("", f, n, None, FALSE, FALSE, io), r.err, r.val)
    /\ UNCHANGED << log, authors, keys, messages, dbFile >>

QueryGetFeedLatestSequence(ios) ==
    /\ Idle
    /\ \E f \in Authors, io \in ios :
         LET r == GetFeedLatestSequence(Db, f, io.sqlOk)
         IN  last' = Call("get_feed_latest_sequence",
                          Args("", f, 0, None, FALSE, FALSE, io), r.err, r.val)
    /\ UNCHANGED << log, authors, keys, messages, dbFile >>

QueryGetEntriesNewerThanSequence(ios) ==
    /\ Idle
    /\ \E f \in Authors, n \in AfterSeqs, l \in Limits,
          ik \in BOOLEAN, iv \in BOOLEAN, io \in ios :
         LET r == GetEntriesNewerThanSequence(Db, log, f, n, l, ik, iv,
                                              io.sqlOk, io.unreadable)
         IN  last' = Call("get_entries_newer_than_sequence",
                          Args("", f, n, l, ik, iv, io), r.err, r.val)
    /\ UNCHANGED << log, authors, keys, messages, dbFile >>

\* The calls are synchronous and the store has one caller at a time: the
\* caller takes the result of a call and is ready for its next call.
Resume ==
    /\ ~Idle
    /\ last.op # "stopped"
    /\ last' = Call("idle", NoArgs, "", << >>)
    /\ UNCHANGED << log, authors, keys, messages, dbFile >>

Next ==
    \/ AppendBatch
    \/ UpdateIndexes
    \/ RebuildIndexes
    \/ QueryGetEntryByKey(Healthy)
    \/ QueryGetEntryBySeq(Healthy)
    \/ QueryGetFeedLatestSequence(Healthy)
    \/ QueryGetEntriesNewerThanSequence(Healthy)
    \/ Resume

Spec == Init /\ [][Next]_vars

(***************************************************************************)
(* The store opened on the files an earlier run of the process left.  The  *)
(* earlier run indexed its log and stopped; while no process runs the file *)
(* at db_path or the log file may be deleted; then SqliteSsbDb::new opens  *)
(* the store and the calls go on.                                          *)
(***************************************************************************)
ReopenLogs == UNION {[1..n -> Payloads] : n \in 1..MaxReopenLog}

\* The files of a run that indexed its log with success and stopped.
InitReopen ==
    /\ log \in ReopenLogs
    /\ LET r == UpdateIndexesFromOffsetFile(SetupConnectionFresh, log, TRUE, 0)
       IN  /\ authors = r.db.authors
           /\ keys = r.db.keys
           /\ messages = r.db.messages
    /\ dbFile = TRUE
    /\ last = Call("stopped", NoArgs, "", << >>)

\* The index file is deleted while no process runs: its tables are gone.
DeleteIndexFile ==
    /\ last.op = "stopped"
    /\ dbFile
    /\ dbFile' = FALSE
    /\ SetDb(EmptyDb)
    /\ UNCHANGED << log, last >>

\* The log file is deleted while no process runs: its frames are gone.
DeleteLogFile ==
    /\ last.op = "stopped"
    /\ log # << >>
    /\ log' = << >>
    /\ UNCHANGED << authors, keys, messages, dbFile, last >>

\* SqliteSsbDb::new: setup_connection on db_path, then OffsetLog::new on the
\* log path, which opens the log or creates an empty one.  No pipeline run
\* is part of it.
New ==
    /\ last.op = "stopped"
    /\ SetDb(SetupConnection(Db, dbFile))
    /\ dbFile' = TRUE
    /\ log' = log
    /\ last' = Call("new", MutArgs(0, Len(messages)), "", << >>)

NextReopen ==
    \/ DeleteIndexFile
    \/ DeleteLogFile
    \/ New
    \/ Next

SpecReopen == InitReopen /\ [][NextReopen]_vars

(***************************************************************************)
(* The pipeline interrupted.  The process dies inside the transaction of a  *)
(* chunk: the chunks committed before it stay in the database file and the *)
(* open transaction is rolled back by SQLite when the file is opened again. *)
(***************************************************************************)
CrashLogs == UNION {[1..n -> Payloads] : n \in 1..MaxCrashLog}

\* A store opened on a log that was written before and an empty index.
InitCrash ==
    /\ log \in CrashLogs
    /\ authors = << >>
    /\ keys = << >>
    /\ messages = << >>
    /\ dbFile = TRUE
    /\ last = Call("new", NoArgs, "", << >>)

\* The process dies while update_indexes_from_offset_file is inside the
\* transaction of chunk k.
CrashInsideChunk ==
    /\ Idle
    /\ \E k \in 1..NumChunks(Pending(Db, log)) :
         /\ SetDb(RunChunks(Db, Pending(Db, log), 1, k).db)
         /\ last' = Call("stopped", MutArgs(0, Len(messages)), "", << >>)
    /\ UNCHANGED << log, dbFile >>

NextCrash ==
    \/ CrashInsideChunk
    \/ New
    \/ UpdateIndexes
    \/ Resume

SpecCrash == InitCrash /\ [][NextCrash]_vars

(***************************************************************************)
(* The queries under failing I/O: a store opened on a log, indexed by a    *)
(* successful pipeline run, then queried while the statement on the index  *)
(* may fail and the read of any frame of the log may fail.                 *)
(***************************************************************************)
FaultLogs == UNION {[1..n -> Payloads] : n \in 1..MaxFaultLog}

\* The I/O of a query: the statement succeeds or fails, and the frames at
\* the offsets in unreadable cannot be read.
Faulty ==
    [sqlOk : BOOLEAN,
     unreadable : SUBSET {OffsetAt(log, i) : i \in 1..Len(log)}]

InitFault ==
    /\ log \in FaultLogs
    /\ LET r == UpdateIndexesFromOffsetFile(SetupConnectionFresh, log, TRUE, 0)
       IN  /\ authors = r.db.authors
           /\ keys = r.db.keys
           /\ messages = r.db.messages
           /\ last = Call("update_indexes_from_offset_file", MutArgs(0, 0),
                          r.err, << >>)
    /\ dbFile = TRUE

NextFault ==
    \/ QueryGetEntryByKey(Faulty)
    \/ QueryGetEntryBySeq(Faulty)
    \/ QueryGetFeedLatestSequence(Faulty)
    \/ QueryGetEntriesNewerThanSequence(Faulty)
    \/ Resume

SpecFault == InitFault /\ [][NextFault]_vars

(***************************************************************************)
(* The store opened on an index file of an older schema.  An earlier        *)
(* version of the program indexed the log and stopped; the file it left     *)
(* has migrations pending when SqliteSsbDb::new opens it.                   *)
(***************************************************************************)
SetupLogs == UNION {[1..n -> Payloads] : n \in 1..MaxSetupLog}

InitSetup ==
    /\ log \in SetupLogs
    /\ LET r == UpdateIndexesFromOffsetFile(SetupConnectionFresh, log, TRUE, 0)
       IN  /\ authors = r.db.authors
           /\ keys = r.db.keys
           /\ messages = r.db.messages
    /\ dbFile = TRUE
    /\ last = Call("stopped", NoArgs, "", << >>)

\* SqliteSsbDb::new on a file with pending migrations.  When
\* setup_connection panics the process ends and the removed file is gone
\* with its last connection.
NewOnOutdated ==
    /\ last.op = "stopped"
    /\ dbFile
    /\ \E probeOk \in BOOLEAN, writable \in BOOLEAN :
         LET r == SetupConnectionOutdated(Db, probeOk, writable)
             args == [MutArgs(0, Len(messages)) EXCEPT !.schema = "pending"]
         IN  /\ SetDb(r.db)
             /\ dbFile' = r.file
             /\ last' = IF r.returned THEN Call("new", args, "", << >>)
                        ELSE Call("stopped", args, "panic", << >>)
    /\ log' = log

NextSetup ==
    \/ NewOnOutdated
    \/ New
    \/ UpdateIndexes
    \/ QueryGetFeedLatestSequence(Healthy)
    \/ Resume

SpecSetup == InitSetup /\ [][NextSetup]_vars

(***************************************************************************)
(* The sequence column: a store opened on a log of envelopes that declare   *)
(* sequences over the whole range of SsbValue::sequence, a u32, and indexed *)
(* by the pipeline.                                                         *)
(***************************************************************************)
\* 1, 2^31 - 1, 2^31 and 2^32 - 1.
WideSequences ==
    {U32(0, 1), U32(0, 2147483647), U32(1, 0), U32(1, 2147483647)}

WideEnvelopes ==
    [kind : {"env"}, key : Keys, author : Authors, sequence : WideSequences,
     order : {SigningOrder}]

WideLogs == UNION {[1..n -> WideEnvelopes] : n \in 1..MaxWideLog}

InitWide ==
    /\ log \in WideLogs
    /\ authors = << >>
    /\ keys = << >>
    /\ messages = << >>
    /\ dbFile = TRUE
    /\ last = Call("new", NoArgs, "", << >>)

NextWide ==
    \/ UpdateIndexes
    \/ Resume

SpecWide == InitWide /\ [][NextWide]_vars

(***************************************************************************)
(* append_batch with its feed_id argument.  The parameter is bound to `_`:  *)
(* the call appends the messages to the log and runs the pipeline.          *)
(***************************************************************************)
\* The feed ids a caller may pass.
FeedIds == Authors

\* A mutant of AppendBatchOn: a batch that holds a payload of another author
\* than feed_id is refused before anything is appended.
AppendBatchOnOwnFeed(db, lg, feed_id, batch, logOk, latestOk, failAt) ==
    IF ~logOk \/ \E i \in 1..Len(batch) :
                    FromSliceOk(batch[i]) /\ batch[i].author # feed_id
    THEN [log |-> lg, db |-> db, err |-> "OffsetAppendError"]
    ELSE LET r == UpdateIndexesFromOffsetFile(db, LogAppendBatch(lg, batch),
                                              latestOk, failAt)
         IN  [log |-> LogAppendBatch(lg, batch), db |-> r.db, err |-> r.err]

\* append_batch(feed_id, messages) on database db and log lg: the log, the
\* tables and the error after the call.
AppendBatchOn(db, lg, feed_id, batch, logOk, latestOk, failAt) ==
    IF ~logOk THEN [log |-> lg, db |-> db, err |-> "OffsetAppendError"]
    ELSE LET r == UpdateIndexesFromOffsetFile(db, LogAppendBatch(lg, batch),
                                              latestOk, failAt)
         IN  [log |-> LogAppendBatch(lg, batch), db |-> r.db, err |-> r.err]

\* append_batch called with a feed id.
AppendBatchAs ==
    /\ Idle
    /\ \E feed_id \in FeedIds, batch \in Batches, logOk \in BOOLEAN,
          latestOk \in BOOLEAN :
        /\ Len(log) + Len(batch) <= MaxFeedLog
        /\ \E failAt \in
                0..NumChunks(Pending(Db, LogAppendBatch(log, batch))) :
             LET r == AppendBatchOn(Db, log, feed_id, batch, logOk, latestOk,
                                    failAt)
             IN  /\ log' = r.log
                 /\ SetDb(r.db)
                 /\ last' = Call("append_batch",
                                 [MutArgs(Len(r.log) - Len(log), Len(messages))
                                      EXCEPT !.feed = feed_id],
                                 r.err, << >>)
    /\ UNCHANGED dbFile

NextFeed ==
    \/ AppendBatchAs
    \/ Resume

SpecFeed == Init /\ [][NextFeed]_vars

(***************************************************************************)
(* The value projection as a function of the payload: a store opened on a  *)
(* log of envelopes whose value objects list their members in any order,   *)
(* indexed by a successful pipeline run, then queried.                     *)
(***************************************************************************)
ValueLogs == UNION {[1..n -> AnyOrderEnvelopes] : n \in 1..MaxValueLog}

InitValue ==
    /\ log \in ValueLogs
    /\ LET r == UpdateIndexesFromOffsetFile(SetupConnectionFresh, log, TRUE, 0)
       IN  /\ authors = r.db.authors
           /\ keys = r.db.keys
           /\ messages = r.db.messages
           /\ last = Call("update_indexes_from_offset_file", MutArgs(0, 0),
                          r.err, << >>)
    /\ dbFile = TRUE

NextValue ==
    \/ QueryGetEntriesNewerThanSequence(Healthy)
    \/ Resume

SpecValue == InitValue /\ [][NextValue]_vars

(***************************************************************************)
(* What the claims speak about.                                            *)
(***************************************************************************)
\* The positions of the log whose payload parses as an envelope.
Parseable(lg) == {i \in 1..Len(lg) : FromSliceOk(lg[i])}

\* The messages rows whose flume_seq is the given offset.
RowsAt(rows, offset) == {j \in 1..Len(rows) : rows[j].flume_seq = offset}

\* Every parseable frame of the log has exactly one messages row.
IndexComplete(rows, lg) ==
    \A i \in Parseable(lg) : Cardinality(RowsAt(rows, OffsetAt(lg, i))) = 1

\* No offset has two messages rows.
NoDuplicateRows(rows) ==
    \A i, j \in 1..Len(rows) : rows[i].flume_seq = rows[j].flume_seq => i = j

IsPrefix(s, u) == Len(s) <= Len(u) /\ SubSeq(u, 1, Len(s)) = s

Succeeded(op) == last.op = op /\ last.err = ""

\* C1 (index completeness): after update_indexes_from_offset_file returns
\* success, every frame of the log that parses as an envelope has exactly one
\* messages row at its offset: none is missing and none is duplicated, the
\* frame at offset 0 included.
C1_IndexCompleteness ==
    Succeeded("update_indexes_from_offset_file") => IndexComplete(messages, log)

\* A successful pipeline run over a log that starts with an envelope, holds a
\* tombstone and ends with an envelope the run itself indexed.
C1_Witness ==
    /\ Succeeded("update_indexes_from_offset_file")
    /\ Len(log) >= 3
    /\ FromSliceOk(log[1])
    /\ \E i \in 1..Len(log) : ~FromSliceOk(log[i])
    /\ FromSliceOk(log[Len(log)])
    /\ Len(messages) > last.args.before
    /\ last.args.before > 0

\* The frames the last append_batch call appended.
Appended == {i \in 1..Len(log) : i > Len(log) - last.args.appended}

\* The positions before i whose envelope has the key (resp. the author and
\* sequence) of the envelope at i.
EarlierSameKey(lg, i) ==
    {j \in Parseable(lg) : j < i /\ lg[j].key = lg[i].key}
EarlierSameSeq(lg, i) ==
    {j \in Parseable(lg) : /\ j < i
                           /\ lg[j].author = lg[i].author
                           /\ lg[j].sequence = lg[i].sequence}

\* The frame at position i is in the log and has its row.
Indexed(i) ==
    /\ LogGet(log, OffsetAt(log, i), {}) = [ok |-> TRUE, data |-> log[i]]
    /\ \E j \in 1..Len(messages) :
         /\ messages[j].flume_seq = OffsetAt(log, i)
         /\ messages[j].seq = AsI32(log[i].sequence)
         /\ \E k \in 1..Len(keys) :
              keys[k].id = messages[j].key_id /\ keys[k].key = log[i].key
         /\ \E a \in 1..Len(authors) :
              /\ authors[a].id = messages[j].author_id
              /\ authors[a].author = log[i].author

\* C2 as stated: after append_batch returns success, every message of the
\* batch is in the log, has a messages row at its frame offset, and is what
\* the queries on its key and on its (author, sequence) return.
C2_AppendedAreReturned ==
    Succeeded("append_batch") =>
        \A i \in Appended \cap Parseable(log) :
            /\ Indexed(i)
            /\ GetEntryByKey(Db, log, log[i].key, TRUE, {}) = Ok(<< log[i] >>)
            /\ GetEntryBySeq(Db, log, log[i].author, AsI32(log[i].sequence),
                             TRUE, {}) = Ok(Some(log[i]))

\* C2 as amended: after append_batch returns success, every message of the
\* batch is in the log and has a messages row at its frame offset holding its
\* key, author and sequence; the query on its key returns an indexed frame
\* with that key, and the message itself when no earlier frame of the log has
\* the key; the query on its (author, sequence) returns an indexed frame of
\* that author and sequence, and the message itself when no earlier frame has
\* that author and sequence.
C2_AppendedAreIndexed ==
    Succeeded("append_batch") =>
        \A i \in Appended \cap Parseable(log) :
            LET byKey == GetEntryByKey(Db, log, log[i].key, TRUE, {})
                bySeq == GetEntryBySeq(Db, log, log[i].author,
                                       AsI32(log[i].sequence), TRUE, {})
            IN  /\ Indexed(i)
                /\ byKey.err = "" /\ Len(byKey.val) = 1
                /\ byKey.val[1].key = log[i].key
                /\ EarlierSameKey(log, i) = {} => byKey.val[1] = log[i]
                /\ bySeq.err = "" /\ Len(bySeq.val) = 1
                /\ bySeq.val[1].author = log[i].author
                /\ bySeq.val[1].sequence = log[i].sequence
                /\ EarlierSameSeq(log, i) = {} => bySeq.val[1] = log[i]

\* A successful append_batch of two envelopes onto a log that already held an
\* indexed frame, one of them repeating a key of the log.
C2_Witness ==
    /\ Succeeded("append_batch")
    /\ last.args.appended >= 2
    /\ last.args.before >= 1
    /\ Appended \subseteq Parseable(log)
    /\ \E i \in Appended : EarlierSameKey(log, i) # {}
    /\ \E i \in Appended : EarlierSameKey(log, i) = {}

\* C3 (gap closure): when the log is ahead of the index (an append_batch
\* appended and then failed with SqliteAppendError), a call of
\* update_indexes_from_offset_file that returns success closes the gap: after
\* it every parseable frame has its row, the rows the index held are kept and
\* no offset has two rows.
C3_GapClosure ==
    [][(/\ ~IndexComplete(messages, log)
        /\ last'.op = "update_indexes_from_offset_file"
        /\ last'.err = "")
       => /\ IndexComplete(messages', log')
          /\ IsPrefix(messages, messages')
          /\ NoDuplicateRows(messages')]_vars

\* A failed append_batch left the log ahead of the index by at least one
\* envelope, behind rows committed earlier.
C3_GapOpen ==
    /\ last.op = "append_batch"
    /\ last.err = "SqliteAppendError"
    /\ last.args.appended >= 1
    /\ ~IndexComplete(messages, log)
    /\ Len(messages) >= 1

\* A successful update_indexes_from_offset_file that found rows committed
\* before it and inserted the missing ones.
C3_Witness ==
    /\ Succeeded("update_indexes_from_offset_file")
    /\ last.args.before >= 1
    /\ Len(messages) > last.args.before
    /\ IndexComplete(messages, log)

\* C4: when append_batch fails with OffsetAppendError the index is untouched:
\* the authors, keys and messages tables are what they were before the call
\* (the pipeline is not run, even when the index lags behind the log).
C4_LogFailureLeavesIndex ==
    [][(last'.op = "append_batch" /\ last'.err = "OffsetAppendError")
       => UNCHANGED << authors, keys, messages >>]_vars

\* An append_batch failed with OffsetAppendError while the index lagged
\* behind the log, so that a pipeline run would have inserted rows.
C4_Witness ==
    /\ last.op = "append_batch"
    /\ last.err = "OffsetAppendError"
    /\ ~IndexComplete(messages, log)

\* What every query answers on index db and log lg when its I/O goes well.
QueryAnswers(db, lg) ==
    [byKey |-> [k \in Keys |-> GetEntryByKey(db, lg, k, TRUE, {})],
     bySeq |-> [f \in Authors, n \in QuerySeqs |->
                    GetEntryBySeq(db, lg, f, n, TRUE, {})],
     latest |-> [f \in Authors |-> GetFeedLatestSequence(db, f, TRUE)],
     newer |-> [f \in Authors, n \in AfterSeqs, l \in Limits,
                ik \in BOOLEAN, iv \in BOOLEAN |->
                    GetEntriesNewerThanSequence(db, lg, f, n, l, ik, iv,
                                                TRUE, {})]]

\* C5 as stated (rebuild fixpoint): in every store state, running
\* rebuild_indexes and then any query gives what the query gives without
\* rebuilding.
C5_RebuildFixpointAnyState ==
    [][(last'.op = "rebuild_indexes" /\ last'.err = "")
       => QueryAnswers(Db', log') = QueryAnswers(Db, log)]_vars

\* C5 as amended: in every store state whose index is current with the log
\* (every parseable frame has its one row), running rebuild_indexes and then
\* any query gives what the query gives without rebuilding.
C5_RebuildFixpoint ==
    [][(/\ IndexComplete(messages, log)
        /\ last'.op = "rebuild_indexes"
        /\ last'.err = "")
       => QueryAnswers(Db', log') = QueryAnswers(Db, log)]_vars

\* A successful rebuild_indexes of an index that held the rows of two
\* envelopes and holds as many afterwards, over a log with a tombstone.
C5_Witness ==
    /\ Succeeded("rebuild_indexes")
    /\ last.args.before >= 2
    /\ Len(messages) = last.args.before
    /\ IndexComplete(messages, log)
    /\ \E i \in 1..Len(log) : ~FromSliceOk(log[i])

\* C6 (incremental idempotence): a successful
\* update_indexes_from_offset_file leaves the index current with the log, and
\* update_indexes_from_offset_file called on an index that is current with
\* the log inserts no author, key or messages row, also when the log ends with
\* unparseable frames; so the second of two back-to-back calls changes
\* nothing.
C6_IncrementalIdempotence ==
    [][/\ (last'.op = "update_indexes_from_offset_file" /\ last'.err = "")
          => IndexComplete(messages', log')
       /\ (/\ IndexComplete(messages, log)
           /\ last'.op = "update_indexes_from_offset_file")
          => UNCHANGED << authors, keys, messages >>]_vars

\* A successful pipeline run that inserted nothing, on an index with rows and
\* a log that ends with an unparseable frame.
C6_Witness ==
    /\ Succeeded("update_indexes_from_offset_file")
    /\ last.args.before >= 1
    /\ Len(messages) = last.args.before
    /\ Len(log) >= 2
    /\ ~FromSliceOk(log[Len(log)])

\* get_latest() with the empty index as the lowest value.
Latest(rows) == IF rows = << >> THEN -1 ELSE GetLatest(rows)[1]

\* C7 (high-water monotonicity): an operation that returns success
\* (append_batch, update_indexes_from_offset_file, rebuild_indexes, a query)
\* never ends with a lower get_latest() than it started with.
C7_HighWaterMonotone ==
    [][last'.err = "" => Latest(messages') >= Latest(messages)]_vars

\* A successful rebuild_indexes of an index that held rows, ending with a
\* high-water mark above offset 0.
C7_Witness ==
    /\ Succeeded("rebuild_indexes")
    /\ last.args.before >= 2
    /\ Latest(messages) > 0

\* The log without its i-th frame.
Without(lg, i) == SubSeq(lg, 1, i - 1) \o SubSeq(lg, i + 1, Len(lg))

\* The index a pipeline run builds from nothing over log lg.
IndexOf(lg) == UpdateIndexesFromOffsetFile(EmptyDb, lg, TRUE, 0).db

\* After a successful indexing, an unparseable frame at any position of the
\* log has no row, and every query answers what it answers on the log without
\* that frame, indexed.
TombstoneTolerant ==
    (\/ Succeeded("update_indexes_from_offset_file")
     \/ Succeeded("append_batch")
     \/ Succeeded("rebuild_indexes"))
    => LET answers == QueryAnswers(Db, log)
       IN  \A i \in 1..Len(log) :
             ~FromSliceOk(log[i]) =>
                /\ RowsAt(messages, OffsetAt(log, i)) = {}
                /\ Len(messages) = Cardinality(Parseable(log))
                /\ answers = QueryAnswers(IndexOf(Without(log, i)),
                                          Without(log, i))

\* C8 (tombstone tolerance): at every point of every behaviour, after a
\* successful indexing an unparseable frame at any position of the log (first,
\* between envelopes, last) has no row, the envelopes after it are indexed,
\* and every query answers what it answers on the log without that frame.
C8_TombstoneTolerance == []TombstoneTolerant

\* A successful pipeline run over a log with a tombstone between two
\* envelopes, both indexed.
C8_Witness ==
    /\ Succeeded("update_indexes_from_offset_file")
    /\ Len(log) >= 3
    /\ FromSliceOk(log[1])
    /\ log[2] = ZeroPayload
    /\ FromSliceOk(log[3])
    /\ Len(messages) >= 2

\* The last call is get_entries_newer_than_sequence and its I/O went well.
NewerCalled ==
    /\ last.op = "get_entries_newer_than_sequence"
    /\ last.args.sqlOk
    /\ last.args.unreadable = {}

\* C9 (projection exclusivity): with both flags false
\* get_entries_newer_than_sequence returns IncludeKeysIncludeValuesBothFalse
\* whatever the feed, sequence, limit and index; with any other flags it
\* returns success.
C9_ProjectionExclusivity ==
    NewerCalled =>
        IF ~last.args.include_keys /\ ~last.args.include_values
        THEN last.err = "IncludeKeysIncludeValuesBothFalse"
        ELSE last.err = ""

\* A call with both flags false on a feed that has a message newer than the
\* sequence asked for.
C9_Witness ==
    /\ NewerCalled
    /\ ~last.args.include_keys /\ ~last.args.include_values
    /\ last.err = "IncludeKeysIncludeValuesBothFalse"
    /\ FindFeedFlumeSeqsNewerThan(Db, last.args.feed, last.args.sequence,
                                  last.args.limit, TRUE).val # << >>

\* The payloads of the indexed frames of the log whose author is feed and
\* whose sequence is greater than after, in log order.
Matches(feed, after) ==
    LET hits == SelectSeq(LogEntries(log),
                          LAMBDA e : /\ FromSliceOk(e.data)
                                     /\ RowsAt(messages, e.offset) # {}
                                     /\ e.data.author = feed
                                     /\ AsI32(e.data.sequence) > after)
    IN  [i \in 1..Len(hits) |-> hits[i].data]

Count(s, x) == Cardinality({i \in 1..Len(s) : s[i] = x})
SameEntries(s, u) ==
    Len(s) = Len(u) /\ \A x \in Payloads : Count(s, x) = Count(u, x)

Min(a, b) == IF a < b THEN a ELSE b

\* The call without its limit.
Unlimited ==
    GetEntriesNewerThanSequence(Db, log, last.args.feed, last.args.sequence,
                                None, TRUE, TRUE, TRUE, {}).val

\* C10 as stated: with both flags true the call returns the payloads of
\* exactly the indexed messages of the feed with a sequence strictly greater
\* than after_seq; with limit L it returns min(L, number of matches) entries,
\* a prefix of the unlimited result.
C10_NewerThanAnyLimit ==
    (NewerCalled /\ last.args.include_keys /\ last.args.include_values) =>
        LET all == Matches(last.args.feed, last.args.sequence)
        IN  /\ last.err = ""
            /\ IF last.args.limit = None
               THEN SameEntries(last.val, all)
               ELSE /\ Len(last.val) = Min(last.args.limit[1], Len(all))
                    /\ IsPrefix(last.val, Unlimited)

\* C10 as amended: as stated for a limit L >= 0; a negative limit is no
\* limit, and all the matches are returned.
C10_NewerThan ==
    (NewerCalled /\ last.args.include_keys /\ last.args.include_values) =>
        LET all == Matches(last.args.feed, last.args.sequence)
        IN  /\ last.err = ""
            /\ IF last.args.limit = None \/ last.args.limit[1] < 0
               THEN SameEntries(last.val, all)
               ELSE /\ Len(last.val) = Min(last.args.limit[1], Len(all))
                    /\ IsPrefix(last.val, Unlimited)
                    /\ SameEntries(Unlimited, all)

\* A call with limit 1 on a feed that has two messages newer than the
\* sequence asked for, over an index that also holds a message the query
\* must leave out (of another author, or not newer than the sequence).
C10_Witness ==
    /\ NewerCalled /\ last.args.include_keys /\ last.args.include_values
    /\ last.args.limit = Some(1)
    /\ Len(last.val) = 1
    /\ Len(Unlimited) = 2
    /\ Len(messages) >= 3

\* Ascending without repetition.
StrictlyAscending(s) == \A i, j \in 1..Len(s) : i < j => s[i] < s[j]

\* The offsets find_feed_flume_seqs_newer_than returns to the last call.
NewerOffsets ==
    FindFeedFlumeSeqsNewerThan(Db, last.args.feed, last.args.sequence,
                               last.args.limit, TRUE).val

\* The sequences of the feed increase with the position in the log.
WellFormedFeed(lg, feed) ==
    \A i, j \in Parseable(lg) :
        (i < j /\ lg[i].author = feed /\ lg[j].author = feed)
            => AsI32(lg[i].sequence) < AsI32(lg[j].sequence)

IndexedFrames(rows, lg) ==
    {i \in Parseable(lg) : RowsAt(rows, OffsetAt(lg, i)) # {}}

\* The offset behind the last frame of the log.
EndOffset(lg) == OffsetAt(lg, Len(lg) + 1)

\* The last call is get_entry_by_key and its I/O went well.
ByKeyCalled ==
    /\ last.op = "get_entry_by_key"
    /\ last.args.sqlOk
    /\ last.args.unreadable = {}

\* C12 (get_entry_by_key): when an indexed frame has the key, the call
\* returns the payload of an indexed frame with that key, as it is in the log;
\* when none has, it fails with MessageNotFound and reads nothing from the log
\* (it has the same outcome when no offset of the log can be read).
C12_GetEntryByKey ==
    ByKeyCalled =>
        LET hits == {i \in IndexedFrames(messages, log) :
                        log[i].key = last.args.key}
        IN  IF hits # {}
            THEN /\ last.err = ""
                 /\ Len(last.val) = 1
                 /\ \E i \in hits : last.val[1] = log[i]
            ELSE /\ last.err = "MessageNotFound"
                 /\ GetEntryByKey(Db, log, last.args.key, TRUE,
                                  0..EndOffset(log)) = Err("MessageNotFound")

\* A call for a key no indexed frame has, on an index that holds another key.
C12_Witness ==
    /\ ByKeyCalled
    /\ last.err = "MessageNotFound"
    /\ Len(messages) >= 2
    /\ \A i \in Parseable(log) : log[i].key # last.args.key

\* The last call is get_entry_by_seq and its I/O went well.
BySeqCalled ==
    /\ last.op = "get_entry_by_seq"
    /\ last.args.sqlOk
    /\ last.args.unreadable = {}

\* C13 (get_entry_by_seq): the call returns None, and no error, when no
\* indexed frame has the feed as author and the sequence (the feed may be
\* unknown to the index); otherwise it returns the payload of an indexed frame
\* of that author and sequence.
C13_GetEntryBySeq ==
    BySeqCalled =>
        LET hits == {i \in IndexedFrames(messages, log) :
                        /\ log[i].author = last.args.feed
                        /\ AsI32(log[i].sequence) = last.args.sequence}
        IN  /\ last.err = ""
            /\ IF hits = {} THEN last.val = None
               ELSE \E i \in hits : last.val = Some(log[i])

\* A call for a feed the index does not know, on an index that holds the
\* sequence asked for under another author.
C13_Witness ==
    /\ BySeqCalled
    /\ last.err = ""
    /\ last.val = None
    /\ AuthorIds(authors, last.args.feed) = {}
    /\ \E j \in 1..Len(messages) : messages[j].seq = last.args.sequence

\* The greatest element of a non-empty set of integers.
SetMax(S) == CHOOSE m \in S : \A x \in S : x <= m

\* The greatest sequence among the indexed frames of the log whose author is
\* feed; None when there is none.
LatestOf(rows, lg, feed) ==
    LET seqs == {AsI32(lg[i].sequence) :
                    i \in {j \in IndexedFrames(rows, lg) : lg[j].author = feed}}
    IN  IF seqs = {} THEN None ELSE Some(SetMax(seqs))

\* C14 as stated: get_feed_latest_sequence returns the greatest sequence over
\* the indexed messages of the feed, None when the feed is unknown or has no
\* message, and returns the same after rebuild_indexes.
C14_LatestSameAfterRebuild ==
    [][/\ (last'.op = "get_feed_latest_sequence" /\ last'.args.sqlOk)
          => /\ last'.err = ""
             /\ last'.val = LatestOf(messages', log', last'.args.feed)
       /\ (last'.op = "rebuild_indexes" /\ last'.err = "")
          => \A f \in Authors :
                GetFeedLatestSequence(Db', f, TRUE)
                    = GetFeedLatestSequence(Db, f, TRUE)]_vars

\* C14 as amended: get_feed_latest_sequence returns the greatest sequence
\* over the indexed messages of the feed, None when the feed is unknown or has
\* no message; it returns the same after a rebuild_indexes that succeeds on
\* an index that was current with the log.
C14_FeedLatestSequence ==
    [][/\ (last'.op = "get_feed_latest_sequence" /\ last'.args.sqlOk)
          => /\ last'.err = ""
             /\ last'.val = LatestOf(messages', log', last'.args.feed)
       /\ (/\ IndexComplete(messages, log)
           /\ last'.op = "rebuild_indexes"
           /\ last'.err = "")
          => \A f \in Authors :
                GetFeedLatestSequence(Db', f, TRUE)
                    = GetFeedLatestSequence(Db, f, TRUE)]_vars

\* A call that returned 2 for a feed whose frame of sequence 2 comes before
\* its frame of sequence 1 in the log, both indexed.
C14_Witness ==
    /\ last.op = "get_feed_latest_sequence"
    /\ last.args.sqlOk
    /\ last.val = Some(2)
    /\ \E i, j \in IndexedFrames(messages, log) :
          /\ i < j
          /\ log[i].author = last.args.feed /\ AsI32(log[i].sequence) = 2
          /\ log[j].author = last.args.feed /\ AsI32(log[j].sequence) = 1

C16_IndexRebuiltOnOpen ==
    [][(/\ last.op = "stopped"
        /\ ~dbFile
        /\ Parseable(log) # {}
        /\ last'.op = "new")
       => /\ IndexComplete(messages', log')
          /\ QueryAnswers(Db', log') = QueryAnswers(IndexOf(log'), log')]_vars

\* C17 as stated (open after log loss): when the log file is missing at open
\* while the index file holds rows, the store opens empty
\* (get_feed_latest_sequence returns None for every feed, get_entry_by_seq
\* returns None, get_entry_by_key fails with MessageNotFound), and a later
\* append_batch that returns success leaves every parseable frame indexed.
C17_OpensEmptyAfterLogLoss ==
    [][/\ (/\ last.op = "stopped"
           /\ log = << >>
           /\ messages # << >>
           /\ last'.op = "new")
          => /\ \A f \in Authors :
                  GetFeedLatestSequence(Db', f, TRUE) = Ok(None)
             /\ \A f \in Authors, n \in QuerySeqs :
                  GetEntryBySeq(Db', log', f, n, TRUE, {}) = Ok(None)
             /\ \A k \in Keys :
                  GetEntryByKey(Db', log', k, TRUE, {}) = Err("MessageNotFound")
       /\ (last'.op = "append_batch" /\ last'.err = "")
          => IndexComplete(messages', log')]_vars

\* The query operations of the store.
QueryOps ==
    {"get_entry_by_key", "get_entry_by_seq", "get_feed_latest_sequence",
     "get_entries_newer_than_sequence"}

\* C18 (frame): rebuild_indexes and update_indexes_from_offset_file leave the
\* log as it was (the same frames with the same payloads at the same
\* offsets), whether they return success or an error, and a query changes
\* neither the log nor a table of the index.
C18_Frame ==
    [][/\ last'.op \in {"rebuild_indexes", "update_indexes_from_offset_file"}
          => /\ log' = log
             /\ LogEntries(log') = LogEntries(log)
       /\ last'.op \in QueryOps
          => UNCHANGED << log, authors, keys, messages >>]_vars

\* A rebuild_indexes that failed in a later chunk, leaving fewer rows than
\* the index held, over a log of three frames.
C18_Witness ==
    /\ last.op = "rebuild_indexes"
    /\ last.err = "SqliteAppendError"
    /\ Len(log) >= 3
    /\ Len(messages) >= 1
    /\ Len(messages) < last.args.before

\* Every parseable frame at or below max(flume_seq) has exactly one row, and
\* every row is at the offset of a parseable frame of the log.
HighWaterMarkHolds(rows, lg) ==
    /\ \A i \in Parseable(lg) :
          OffsetAt(lg, i) <= Latest(rows)
              => Cardinality(RowsAt(rows, OffsetAt(lg, i))) = 1
    /\ \A j \in 1..Len(rows) :
          \E i \in Parseable(lg) : OffsetAt(lg, i) = rows[j].flume_seq

\* C19 (high-water-mark invariant): in every state the calls of the store
\* reach, also after a pipeline run that failed, every parseable frame at an
\* offset up to max(messages.flume_seq) has exactly one messages row and
\* every row is at the offset of a parseable frame of the log: the index is
\* not ahead of the log and has no hole below its high-water mark.
C19_HighWaterMark == HighWaterMarkHolds(messages, log)

\* A pipeline run failed in its second chunk: the rows of the first chunk are
\* committed, a tombstone lies below the high-water mark and the log is ahead
\* of the index.
C19_Witness ==
    /\ last.err = "SqliteAppendError"
    /\ Len(messages) > last.args.before
    /\ ~IndexComplete(messages, log)
    /\ \E i \in 1..Len(log) :
          ~FromSliceOk(log[i]) /\ OffsetAt(log, i) < Latest(messages)

\* The offsets of the parseable entries among the first n entries of s.
ParseableOffsets(s, n) ==
    {s[i].offset : i \in {j \in 1..Min(n, Len(s)) : FromSliceOk(s[j].data)}}

\* The offsets of the rows after has behind those of before.
NewRowOffsets(before, after) ==
    {after[j].flume_seq : j \in (Len(before) + 1)..Len(after)}

\* C20 as stated: when update_indexes_from_offset_file returns
\* SqliteAppendError, get_latest() is what it was before the call, whichever
\* chunk failed.
C20_HighWaterUnchangedOnFailure ==
    [][(/\ last'.op = "update_indexes_from_offset_file"
        /\ last'.err = "SqliteAppendError")
       => GetLatest(messages') = GetLatest(messages)]_vars

\* C20 as amended: when update_indexes_from_offset_file returns
\* SqliteAppendError, the rows of the chunks before the failing one are
\* committed and no row of the failing chunk or of a later one is: the rows
\* the index held are kept, the new rows are those of the parseable entries of
\* a whole number of leading chunks, fewer than all, and get_latest() is
\* unchanged when no entry of these chunks parses (none, when the first chunk
\* failed).
C20_FailedChunkRolledBack ==
    [][(/\ last'.op = "update_indexes_from_offset_file"
        /\ last'.err = "SqliteAppendError")
       => LET pending == Pending(Db, log)
          IN  /\ IsPrefix(messages, messages')
              /\ NoDuplicateRows(messages')
              /\ \E k \in 0..(NumChunks(pending) - 1) :
                    /\ NewRowOffsets(messages, messages')
                          = ParseableOffsets(pending, k * ChunkSize)
                    /\ ParseableOffsets(pending, k * ChunkSize) = {}
                          => GetLatest(messages') = GetLatest(messages)]_vars

\* A call that failed in its second chunk after the first chunk committed a
\* row: get_latest() is higher than before the call.
C20_Witness ==
    /\ last.op = "update_indexes_from_offset_file"
    /\ last.err = "SqliteAppendError"
    /\ Len(messages) > last.args.before
    /\ Latest(messages) >= 0
    /\ ~IndexComplete(messages, log)

\* The strings the rows of the authors table and of the keys table hold.
AuthorsOf(rows) == {rows[i].author : i \in 1..Len(rows)}
KeysOf(rows) == {rows[i].key : i \in 1..Len(rows)}

\* The parseable entries among the first n entries of stream s.
ParseableAmong(s, n) == {j \in 1..Min(n, Len(s)) : FromSliceOk(s[j].data)}

\* C21 (chunk atomicity and restart): a pipeline run that fails or is
\* interrupted inside chunk k leaves in the index every row of the chunks
\* before k, no authors, keys or messages row of chunk k and no row of a
\* later chunk; a later update_indexes_from_offset_file that succeeds adds
\* rows only above the last committed flume_seq and ends with a complete
\* index without duplicates.
C21_ChunkAtomicity ==
    [][/\ (\/ last'.op = "stopped" /\ last.op # "stopped"
           \/ /\ last'.op = "update_indexes_from_offset_file"
              /\ last'.err = "SqliteAppendError")
          => LET pending == Pending(Db, log)
             IN  \E k \in 1..NumChunks(pending) :
                   LET n == (k - 1) * ChunkSize
                   IN  /\ IsPrefix(messages, messages')
                       /\ NoDuplicateRows(messages')
                       /\ NewRowOffsets(messages, messages')
                             = ParseableOffsets(pending, n)
                       /\ AuthorsOf(authors')
                             = AuthorsOf(authors)
                               \cup {pending[j].data.author :
                                        j \in ParseableAmong(pending, n)}
                       /\ KeysOf(keys')
                             = KeysOf(keys)
                               \cup {pending[j].data.key :
                                        j \in ParseableAmong(pending, n)}
       /\ (last'.op = "update_indexes_from_offset_file" /\ last'.err = "")
          => /\ IsPrefix(messages, messages')
             /\ \A o \in NewRowOffsets(messages, messages') :
                   o > Latest(messages)
             /\ IndexComplete(messages', log')
             /\ NoDuplicateRows(messages')]_vars

\* A run that resumed: the index held the rows of the chunks committed
\* before a failure or a crash, and the call added the rows that were
\* missing.
C21_Witness ==
    /\ last.op = "update_indexes_from_offset_file"
    /\ last.err = ""
    /\ last.args.before >= 1
    /\ Len(messages) > last.args.before
    /\ Len(log) = MaxCrashLog

\* C22 (input-contract error before any I/O): get_entries_newer_than_sequence
\* called with both flags false returns IncludeKeysIncludeValuesBothFalse
\* whether or not the statement on the index or a read of the log would
\* succeed.
C22_ContractErrorBeforeIO ==
    (/\ last.op = "get_entries_newer_than_sequence"
     /\ ~last.args.include_keys
     /\ ~last.args.include_values)
    => last.err = "IncludeKeysIncludeValuesBothFalse"

\* The offsets the index resolves for the last call of
\* get_entries_newer_than_sequence.
ResolvedOffsets ==
    LET seqs == FindFeedFlumeSeqsNewerThan(Db, last.args.feed,
                                           last.args.sequence,
                                           last.args.limit, TRUE).val
    IN  {seqs[i] : i \in 1..Len(seqs)}

\* C23 (a log read failure is fatal to the call): when
\* get_entries_newer_than_sequence is called with keys only, values only or
\* keys and values, the statement on the index succeeds and the read of the
\* log fails at an offset the index resolved, the call returns
\* OffsetGetError.
C23_LogReadFailureFatal ==
    (/\ last.op = "get_entries_newer_than_sequence"
     /\ last.args.include_keys \/ last.args.include_values
     /\ last.args.sqlOk
     /\ ResolvedOffsets \cap last.args.unreadable # {})
    => last.err = "OffsetGetError"

\* C24 (schema bootstrap): when SqliteSsbDb::new has opened an index file
\* with pending migrations, a file exists at the database path and the
\* connection of the store sees empty authors, keys and messages tables, so
\* that the next pipeline run indexes the log from its first frame.
C24_SchemaBootstrap ==
    (last.op = "new" /\ last.args.schema = "pending")
    => /\ dbFile
       /\ authors = << >>
       /\ keys = << >>
       /\ messages = << >>
       /\ Pending(Db, log) = LogEntries(log)

\* No two rows of a table hold the same id.
UniqueIds(rows) ==
    \A i, j \in 1..Len(rows) : rows[i].id = rows[j].id => i = j

SameNumber(seq, u) == u.hi = 0 /\ seq = u.lo

\* C26 (stored sequence fidelity): every messages row is the row of a
\* parseable envelope of the log: its flume_seq is the offset of the frame,
\* its seq is the sequence the envelope declares, whatever u32 that is, and
\* its key_id and author_id are ids of keys and authors rows that hold the
\* key and the author of the envelope; every indexed envelope has such a row.
C26_StoredSequenceFidelity ==
    /\ \A j \in 1..Len(messages) :
          \E i \in Parseable(log) :
              /\ messages[j].flume_seq = OffsetAt(log, i)
              /\ SameNumber(messages[j].seq, log[i].sequence)
              /\ \E k \in 1..Len(keys) :
                    /\ keys[k].id = messages[j].key_id
                    /\ keys[k].key = log[i].key
              /\ \E a \in 1..Len(authors) :
                    /\ authors[a].id = messages[j].author_id
                    /\ authors[a].author = log[i].author
    /\ Succeeded("update_indexes_from_offset_file")
          => \A i \in Parseable(log) :
                Cardinality(RowsAt(messages, OffsetAt(log, i))) = 1

\* C27 (feed_id is advisory): whatever append_batch did when called with one
\* feed id, on the same log and index and with the same batch it can do with
\* every other feed id: the log, the tables and the result are the same; and
\* every messages row the call adds is under the author its own payload
\* declares, also when that author is not the feed id.
C27_FeedIdAdvisory ==
    [][last'.op = "append_batch"
       => LET batch == SubSeq(log', Len(log) + 1, Len(log'))
          IN  /\ \A g \in FeedIds :
                    \E logOk \in BOOLEAN, latestOk \in BOOLEAN,
                       failAt \in 0..NumChunks(Pending(Db, log')) :
                        LET r == AppendBatchOn(Db, log, g, batch, logOk,
                                               latestOk, failAt)
                        IN  /\ r.log = log'
                            /\ r.db = [authors |-> authors', keys |-> keys',
                                       messages |-> messages']
                            /\ r.err = last'.err
              /\ \A j \in (Len(messages) + 1)..Len(messages') :
                    \E i \in Parseable(log') :
                        /\ OffsetAt(log', i) = messages'[j].flume_seq
                        /\ \E a \in 1..Len(authors') :
                              /\ authors'[a].id = messages'[j].author_id
                              /\ authors'[a].author = log'[i].author]_vars

\* A call with feed id @a1 that appended and indexed a message of @a2.
C27_Witness ==
    /\ last.op = "append_batch"
    /\ last.err = ""
    /\ last.args.feed = "@a1"
    /\ last.args.appended >= 1
    /\ \E j \in (last.args.before + 1)..Len(messages) :
          \E a \in 1..Len(authors) :
              /\ authors[a].id = messages[j].author_id
              /\ authors[a].author = "@a2"

====
